---- MODULE Spec2Model ----
(***************************************************************************)
(* Model of RandomBase<RandomTraits> (code/core/Random.hpp) and of the two *)
(* generator providers FastRandomTraits / ServerRandomTraits               *)
(* (code/core/Random.cpp).                                                 *)
(*                                                                         *)
(* The engines std::mt19937 / std::mt19937_64 are abstracted to a small    *)
(* deterministic engine: a state in 0 .. GenMod-1, every call of           *)
(* operator() returns the current word and advances the state.  The        *)
(* standard distributions are modelled by what ISO C++ [rand.dist] says    *)
(* they produce, realised as deterministic functions of the raw words.     *)
(* Floating point values are fixed-point numbers: a numerator over a named *)
(* denominator.                                                            *)
(***************************************************************************)
EXTENDS Integers, Sequences, FiniteSets, Bags, TLC

\* ------------------------------------------------------------------ bounds
GenMod == 4      \* number of distinct words of the abstract engine
MaxInt == 2      \* integral arguments range over -MaxInt .. MaxInt
MaxLen == 3      \* longest collection / weight vector / shuffled array
Scale == 2       \* fixed-point denominator of triangularf results

VARIABLES
    m,        \* run A: the process state (build mode, the three engines, flags)
    pc,       \* "idle": between calls; "called": a call has just completed
    last,     \* run A: the call just made and what it produced
    m2,       \* run B of the two-run (determinism) specification
    last2     \* run B: what the same call produced there

vars == <<m, pc, last, m2, last2>>

\* ------------------------------------------------------------ the engines
\* A function-local static that has not been constructed yet.
Unbuilt == -1

Words == 0 .. (GenMod - 1)

\* The process state after static construction: no provider engine built,
\* the caller's own engine seeded with `seed`.  The two providers share no
\* state, so a run follows a program that samples through one of them.
InitMachine(fatal, uses, seed) ==
    [ fatal   |-> fatal,     \* ally_assert terminates the process
      uses    |-> uses,      \* the alias the program samples through:
                             \* "fast" (Random) or "server" (ServerRandom)
      fast    |-> Unbuilt,   \* FastRandomTraits::generator()::s_fastGenerator
      server  |-> Unbuilt,   \* ServerRandomTraits::generator()::s_fastGenerator
      user    |-> seed,      \* an engine owned by the caller
      seeded  |-> FALSE,     \* seed() has been applied to the server engine
      halted  |-> FALSE,     \* the process was terminated by an assertion
      ub      |-> FALSE,     \* the run has executed undefined behaviour
      fired   |-> {} ]       \* assertions that failed during the current call

GenState(mm, ref) ==
    IF ref = "fast" THEN mm.fast
    ELSE IF ref = "server" THEN mm.server
    ELSE mm.user

SetGen(mm, ref, s) ==
    IF ref = "fast" THEN [mm EXCEPT !.fast = s]
    ELSE IF ref = "server" THEN [mm EXCEPT !.server = s]
    ELSE [mm EXCEPT !.user = s]

\* generator(): one raw word of the engine `ref`, whose state advances.
Draw(ref, mm) ==
    LET s == GenState(mm, ref)
    IN  [out |-> s, m |-> SetGen(mm, ref, (s + 1) % GenMod)]

\* ally_assert(cond): a failed assertion is recorded; it ends the process in
\* a build where assertions are fatal and is passed over otherwise.
AllyAssert(cond, name, mm) ==
    IF cond THEN mm
    ELSE [mm EXCEPT !.fired = @ \cup {name}, !.halted = mm.fatal]

\* FastRandomTraits::generator(): lazily built, seeded from s_device().
FastGenerator(mm, seed) ==
    IF mm.fast = Unbuilt THEN [mm EXCEPT !.fast = seed] ELSE mm

\* Mutant of ServerGenerator: the assertion is skipped once the stream is seeded.
ServerGeneratorChecksSeed(mm, seed) ==
    LET m1 == AllyAssert(mm.seeded, "server", mm)
    IN  IF m1.halted THEN m1
        ELSE IF m1.server = Unbuilt THEN [m1 EXCEPT !.server = seed] ELSE m1

\* ServerRandomTraits::generator(): asserts, then as the fast one.
ServerGenerator(mm, seed) ==
    LET m1 == AllyAssert(FALSE, "server", mm)
    IN  IF m1.halted THEN m1
        ELSE IF m1.server = Unbuilt THEN [m1 EXCEPT !.server = seed] ELSE m1

\* RandomTraits::generator() of the provider `traits`: the engine it refers
\* to and the state after the call.
TraitsGenerator(traits, mm, seed) ==
    IF traits = "fast"
    THEN [ref |-> "fast", m |-> FastGenerator(mm, seed)]
    ELSE [ref |-> "server", m |-> ServerGenerator(mm, seed)]

\* --------------------------------------------------- standard distributions
\* Number of engine words a distribution over `range` values consumes per try.
NumWords(range) ==
    CHOOSE k \in 1 .. 8 : GenMod^k >= range /\ (k = 1 \/ GenMod^(k - 1) < range)

\* k consecutive words of the engine, most significant first.
RECURSIVE Composite(_, _, _)
Composite(ref, mm, k) ==
    IF k = 0 THEN [out |-> 0, m |-> mm]
    ELSE LET d == Draw(ref, mm)
             rest == Composite(ref, d.m, k - 1)
         IN  [out |-> d.out * GenMod^(k - 1) + rest.out, m |-> rest.m]

\* Mutant of UniformInt: the words past the last whole multiple are kept.
UniformIntNoReject(from, to, ref, mm) ==
    LET range == to - from + 1
        scaling == GenMod^NumWords(range) \div range
        c == Composite(ref, mm, NumWords(range))
    IN  [val |-> from + (c.out \div scaling), m |-> c.m]

\* std::uniform_int_distribution<T>(from, to)(generator), from <= to:
\* scale the engine's span down to the to - from + 1 values, rejecting the
\* words past the last whole multiple.
RECURSIVE UniformInt(_, _, _, _)
UniformInt(from, to, ref, mm) ==
    LET range == to - from + 1
        span == GenMod^NumWords(range)
        scaling == span \div range
        past == range * scaling
        c == Composite(ref, mm, NumWords(range))
    IN  IF c.out < past
        THEN [val |-> from + (c.out \div scaling), m |-> c.m]
        ELSE UniformInt(from, to, ref, c.m)

\* std::generate_canonical: a value num / GenMod of [0, 1).
Canonical(ref, mm) ==
    LET d == Draw(ref, mm) IN [num |-> d.out, m |-> d.m]

\* std::uniform_real_distribution<T>(0, 1)(generator): a + (b - a) * canonical
\* with a = 0, b = 1, as a numerator over GenMod.
UniformReal01(ref, mm) == Canonical(ref, mm)

SumSeq(w) ==
    LET S[i \in 0 .. Len(w)] == IF i = 0 THEN 0 ELSE S[i - 1] + w[i]
    IN  S[Len(w)]

PrefixSum(w, i) == SumSeq(SubSeq(w, 1, i))

\* Mutant of DiscreteIndex: the first cumulative probability that reaches the
\* canonical value (a lower-bound search), so a leading zero weight is hit.
DiscreteIndexLowerBound(w, ref, mm) ==
    IF Len(w) = 0 THEN [val |-> 0, m |-> mm]
    ELSE LET u == Canonical(ref, mm)
             i == CHOOSE j \in 1 .. Len(w) :
                    /\ u.num * SumSeq(w) <= PrefixSum(w, j) * GenMod
                    /\ \A h \in 1 .. (j - 1) :
                          ~(u.num * SumSeq(w) <= PrefixSum(w, h) * GenMod)
         IN  [val |-> i - 1, m |-> u.m]

\* std::discrete_distribution<size_t>(weights)(generator): index i is produced
\* with probability w_i / S (an empty weight range stands for the single
\* weight 1): the least i whose cumulative probability exceeds the canonical
\* value.  Requires S > 0.
DiscreteIndex(w, ref, mm) ==
    IF Len(w) = 0 THEN [val |-> 0, m |-> mm]
    ELSE LET u == Canonical(ref, mm)
             i == CHOOSE j \in 1 .. Len(w) :
                    /\ u.num * SumSeq(w) < PrefixSum(w, j) * GenMod
                    /\ \A h \in 1 .. (j - 1) :
                          ~(u.num * SumSeq(w) < PrefixSum(w, h) * GenMod)
         IN  [val |-> i - 1, m |-> u.m]

\* floor of the square root
Isqrt(n) == CHOOSE r \in 0 .. n : r * r <= n /\ (r + 1) * (r + 1) > n

\* Mutant of Swap: element j is copied over element i, not exchanged.
SwapCopies(seq, i, j) == [seq EXCEPT ![i] = seq[j]]

Swap(seq, i, j) == [seq EXCEPT ![i] = seq[j], ![j] = seq[i]]

\* std::shuffle(first, last, generator) on the positions lo+1 .. hi of seq:
\* for each i = 1 .. n-1, swap element i with element uniform(0, i).
RECURSIVE ShuffleLoop(_, _, _, _, _, _)
ShuffleLoop(seq, lo, i, hi, ref, mm) ==
    IF lo + i >= hi THEN [seq |-> seq, m |-> mm]
    ELSE LET j == UniformInt(0, i, ref, mm)
         IN  ShuffleLoop(Swap(seq, lo + i + 1, lo + j.val + 1), lo, i + 1, hi, ref, j.m)

StdShuffle(seq, lo, hi, ref, mm) == ShuffleLoop(seq, lo, 1, hi, ref, mm)

\* ------------------------------------------------------ RandomBase members
\* What a member function hands back: whether it returned, the value (an
\* integer; a float as a numerator), and what it left behind.
Out(ret, val, mm) ==
    [ ret    |-> ret,       \* the call returned to its caller
      val    |-> val,       \* the value returned
      after  |-> <<>>,      \* shuffle: the array after the call
      perm   |-> <<>>,      \* shuffle: where each position's element came from
      offset |-> -1,        \* uniformFrom / weightedFrom: the drawn offset
      branch |-> "none",    \* triangularf: the branch taken
      u      |-> -1,        \* triangularf: the numerator of the uniform draw
      m      |-> mm ]

NoReturn(mm) == Out(FALSE, 0, mm)

\* uniform<T>(from, to, generator)
uniform3(from, to, ref, mm) ==
    LET r == UniformInt(from, to, ref, mm) IN Out(TRUE, r.val, r.m)

\* uniform<T>(to, generator)
uniform2(to, ref, mm) ==
    LET r == UniformInt(0, to, ref, mm) IN Out(TRUE, r.val, r.m)

\* probability<T>(generator)
probability(ref, mm) ==
    LET r == UniformInt(0, 100, ref, mm) IN Out(TRUE, r.val, r.m)

\* yesNo(generator): static_cast<bool>(uniform<int>(0, 1, generator))
yesNo(ref, mm) ==
    LET r == uniform3(0, 1, ref, mm)
    IN  Out(TRUE, IF r.val # 0 THEN 1 ELSE 0, r.m)

\* uniformf<T>(generator): the numerator of a value over GenMod
uniformf(ref, mm) ==
    LET r == UniformReal01(ref, mm) IN Out(TRUE, r.num, r.m)

\* Mutant of triangularf: the lower branch leaves the square root out.
triangularfNoSqrt(a, b, c, ref, mm) ==
    LET u == uniformf(ref, mm)
        less == b > a /\ u.val * (b - a) < (c - a) * GenMod
    IN  IF less
        THEN [Out(TRUE,
                  a * Scale + ((u.val * (b - a) * (c - a) * Scale) \div GenMod),
                  u.m) EXCEPT !.branch = "lower", !.u = u.val]
        ELSE [Out(TRUE,
                  b * Scale
                    - Isqrt(((GenMod - u.val) * (b - a) * (b - c) * Scale * Scale) \div GenMod),
                  u.m) EXCEPT !.branch = "upper", !.u = u.val]

\* triangularf(a, b, c, generator): the result in units of 1 / Scale.
\* u = num / GenMod and f = (c - a) / (b - a); u < f is compared exactly
\* (for a = b the quotient is not a number and the comparison is false).
triangularf(a, b, c, ref, mm) ==
    LET u == uniformf(ref, mm)
        less == b > a /\ u.val * (b - a) < (c - a) * GenMod
    IN  IF less
        THEN [Out(TRUE,
                  a * Scale + Isqrt((u.val * (b - a) * (c - a) * Scale * Scale) \div GenMod),
                  u.m) EXCEPT !.branch = "lower", !.u = u.val]
        ELSE [Out(TRUE,
                  b * Scale
                    - Isqrt(((GenMod - u.val) * (b - a) * (b - c) * Scale * Scale) \div GenMod),
                  u.m) EXCEPT !.branch = "upper", !.u = u.val]

\* size_t arithmetic: two engine words wide, wrapping.
SizeMod == GenMod * GenMod

\* The common tail of uniformFrom and weightedFrom:
\*     std::advance(it, offset); ally_assert(it != collection.end()); return *it;
\* `env` gives what undefined behaviour yields: env.cmp, whether an iterator
\* moved beyond end() compares unequal to end(), and env.val, the value read
\* through an iterator that points at no element.
AdvanceAndRead(coll, offset, mm, env) ==
    IF offset < Len(coll)
    THEN [Out(TRUE, coll[offset + 1], mm) EXCEPT !.offset = offset]
    ELSE IF offset = Len(coll)
    THEN LET m1 == AllyAssert(FALSE, "end", mm)
         IN  IF m1.halted
             THEN [NoReturn(m1) EXCEPT !.offset = offset]
             ELSE [Out(TRUE, env.val, [m1 EXCEPT !.ub = TRUE]) EXCEPT !.offset = offset]
    ELSE LET m1 == AllyAssert(env.cmp, "end", [mm EXCEPT !.ub = TRUE])
         IN  IF m1.halted
             THEN [NoReturn(m1) EXCEPT !.offset = offset]
             ELSE [Out(TRUE, env.val, m1) EXCEPT !.offset = offset]

\* Mutant of uniformFrom: the offset is drawn in [0, size], not [0, size - 1].
uniformFromUpToSize(coll, ref, mm, env) ==
    LET m1 == AllyAssert(Len(coll) # 0, "empty", mm)
    IN  IF m1.halted THEN NoReturn(m1)
        ELSE LET o == uniform2(Len(coll) % SizeMod, ref, m1)
             IN  AdvanceAndRead(coll, o.val, o.m, env)

\* uniformFrom(collection, generator)
uniformFrom(coll, ref, mm, env) ==
    LET m1 == AllyAssert(Len(coll) # 0, "empty", mm)
    IN  IF m1.halted THEN NoReturn(m1)
        ELSE LET o == uniform2((Len(coll) - 1) % SizeMod, ref, m1)
             IN  AdvanceAndRead(coll, o.val, o.m, env)

\* weightedFrom(weights, collection, generator).  Weights that sum to 0
\* break the precondition of std::discrete_distribution: undefined.
weightedFrom(w, coll, ref, mm, env) ==
    IF Len(w) > 0 /\ SumSeq(w) = 0
    THEN Out(TRUE, env.val, [mm EXCEPT !.ub = TRUE])
    ELSE LET o == DiscreteIndex(w, ref, mm)
         IN  AdvanceAndRead(coll, o.val, o.m, env)

Identity(n) == [i \in 1 .. n |-> i]

\* shuffle(first, last, generator) on the half-open range [lo, hi) of seq
shuffle(seq, lo, hi, ref, mm) ==
    LET r == StdShuffle(seq, lo, hi, ref, mm)
    IN  [Out(TRUE, 0, r.m) EXCEPT
            !.after = r.seq,
            !.perm = StdShuffle(Identity(Len(seq)), lo, hi, ref, mm).seq]

\* ------------------------------------------------------------------ calls
\* A call of a member of RandomBase<traits>; `explicit` says whether the
\* caller passed its own engine as the trailing generator argument.
Call(op, traits, explicit, a, b, c, coll, weights) ==
    [ op |-> op, traits |-> traits, explicit |-> explicit,
      a |-> a, b |-> b, c |-> c, coll |-> coll, weights |-> weights ]

Providers == {"fast", "server"}
Ints == (0 - MaxInt) .. MaxInt
Lens == 0 .. MaxLen
TriVals == 0 .. (MaxInt + 1)
WeightVals == 0 .. 1
SeqsUpTo(S, n) == UNION {[1 .. k -> S] : k \in 0 .. n}

\* The collections passed in: n distinct elements 10, 20, ...
Collection(n) == [i \in 1 .. n |-> 10 * i]
\* The arrays shuffled: n elements 1, 2, 1, ... (equal elements included)
Array(n) == [i \in 1 .. n |-> 2 - (i % 2)]

\* What the environment of one call supplies: the word s_device() yields
\* when a provider engine is built, and the outcome of undefined behaviour.
UndefVals == {10, 77}
Env(seed, val, cmp) == [seed |-> seed, val |-> val, cmp |-> cmp]

\* Mutant of GeneratorArg: the supplied engine is ignored.
GeneratorArgIgnored(call, mm, seed) == TraitsGenerator(call.traits, mm, seed)

\* Mutant of GeneratorArg: the default argument is evaluated even when the
\* caller supplies an engine.
GeneratorArgEager(call, mm, seed) ==
    IF call.explicit THEN [ref |-> "user", m |-> TraitsGenerator(call.traits, mm, seed).m]
    ELSE TraitsGenerator(call.traits, mm, seed)

\* The generator argument of a call (Random.hpp: `Generator& generator =
\* RandomTraits::generator()`): the caller's engine when supplied, else the
\* provider's, obtained by calling RandomTraits::generator().
GeneratorArg(call, mm, seed) ==
    IF call.explicit THEN [ref |-> "user", m |-> mm]
    ELSE TraitsGenerator(call.traits, mm, seed)

\* The member function's body on the chosen engine.
Body(call, ref, mm, env) ==
    CASE call.op = "uniform2" -> uniform2(call.b, ref, mm)
      [] call.op = "uniform3" -> uniform3(call.a, call.b, ref, mm)
      [] call.op = "probability" -> probability(ref, mm)
      [] call.op = "yesNo" -> yesNo(ref, mm)
      [] call.op = "uniformf" -> uniformf(ref, mm)
      [] call.op = "triangularf" -> triangularf(call.a, call.b, call.c, ref, mm)
      [] call.op = "uniformFrom" -> uniformFrom(call.coll, ref, mm, env)
      [] call.op = "weightedFrom" -> weightedFrom(call.weights, call.coll, ref, mm, env)
      [] call.op = "shuffle" -> shuffle(call.coll, call.a, call.b, ref, mm)
      [] call.op = "seed" -> Out(TRUE, 0, [SetGen(mm, ref, call.a) EXCEPT !.seeded = TRUE])

\* One call, start to end: the default argument is evaluated first, then
\* the body runs unless the process has been terminated.
Invoke(call, mm, env) ==
    LET g == GeneratorArg(call, [mm EXCEPT !.fired = {}], env.seed)
    IN  IF g.m.halted THEN NoReturn(g.m) ELSE Body(call, g.ref, g.m, env)

Uniform2Calls ==
    {Call("uniform2", t, e, 0, to, 0, <<>>, <<>>) :
        t \in Providers, e \in BOOLEAN, to \in 0 .. MaxInt}
Uniform3Calls ==
    {Call("uniform3", t, e, p[1], p[2], 0, <<>>, <<>>) :
        t \in Providers, e \in BOOLEAN, p \in {q \in Ints \X Ints : q[1] <= q[2]}}
ProbabilityCalls ==
    {Call("probability", t, e, 0, 0, 0, <<>>, <<>>) : t \in Providers, e \in BOOLEAN}
YesNoCalls ==
    {Call("yesNo", t, e, 0, 0, 0, <<>>, <<>>) : t \in Providers, e \in BOOLEAN}
UniformfCalls ==
    {Call("uniformf", t, e, 0, 0, 0, <<>>, <<>>) : t \in Providers, e \in BOOLEAN}
TriangularfCalls ==
    {Call("triangularf", t, e, p[1], p[2], p[3], <<>>, <<>>) :
        t \in Providers, e \in BOOLEAN,
        p \in {q \in TriVals \X TriVals \X TriVals :
                 q[1] <= q[3] /\ q[3] <= q[2]}}
UniformFromCalls ==
    {Call("uniformFrom", t, e, 0, 0, 0, Collection(n), <<>>) :
        t \in Providers, e \in BOOLEAN, n \in Lens}
WeightedFromCalls ==
    {Call("weightedFrom", t, e, 0, 0, 0, Collection(n), w) :
        t \in Providers, e \in BOOLEAN, n \in Lens, w \in SeqsUpTo(WeightVals, MaxLen)}
ShuffleCalls ==
    {Call("shuffle", t, e, p[2], p[3], 0, Array(p[1]), <<>>) :
        t \in Providers, e \in BOOLEAN,
        p \in {q \in Lens \X Lens \X Lens : q[2] <= q[3] /\ q[3] <= q[1]}}
\* ServerRandomTraits::generator().seed(v): the owner seeding the server stream
SeedCalls ==
    {Call("seed", "server", FALSE, v, 0, 0, <<>>, <<>>) : v \in Words}

\* ------------------------------------------------------- the state machine
Idle == [call |-> Call("none", "fast", TRUE, 0, 0, 0, <<>>, <<>>),
         out |-> NoReturn(InitMachine(FALSE, "fast", 0)),
         pre |-> InitMachine(FALSE, "fast", 0)]

Runnable(mm) == ~mm.halted /\ ~mm.ub

\* The words s_device() may yield in this call: it is read only when the
\* provider's engine is still to be built.
Seeds(call, mm) ==
    IF GenState(mm, call.traits) = Unbuilt THEN Words ELSE {0}

\* The outcomes of undefined behaviour, where the call runs into it.
Envs(call, mm) ==
    UNION {IF Invoke(call, mm, Env(s, 10, FALSE)).m.ub
           THEN {Env(s, v, c) : v \in UndefVals, c \in BOOLEAN}
           ELSE {Env(s, 10, FALSE)} : s \in Seeds(call, mm)}

Record(call, mm, env) ==
    [call |-> call, out |-> Invoke(call, mm, env), pre |-> mm]

\* A program at start, sampling through one provider.  (Run B takes no part
\* in this specification.)
Init ==
    /\ \E fatal \in BOOLEAN, uses \in Providers, seed \in Words :
          m = InitMachine(fatal, uses, seed)
    /\ m2 = InitMachine(FALSE, "fast", 0)
    /\ pc = "idle"
    /\ last = Idle
    /\ last2 = Idle

\* A call made by the program (run A alone).
Step(call) ==
    /\ Runnable(m)
    /\ call.traits = m.uses
    /\ \E env \in Envs(call, m) :
          /\ last' = Record(call, m, env)
          /\ m' = Invoke(call, m, env).m
    /\ pc' = "called"
    /\ UNCHANGED <<m2, last2>>

Uniform2 ==
    /\ pc = "idle"
    /\ \E call \in Uniform2Calls : Step(call)
Uniform3 ==
    /\ pc = "idle"
    /\ \E call \in Uniform3Calls : Step(call)
Probability ==
    /\ pc = "idle"
    /\ \E call \in ProbabilityCalls : Step(call)
YesNo ==
    /\ pc = "idle"
    /\ \E call \in YesNoCalls : Step(call)
Uniformf ==
    /\ pc = "idle"
    /\ \E call \in UniformfCalls : Step(call)
Triangularf ==
    /\ pc = "idle"
    /\ \E call \in TriangularfCalls : Step(call)
UniformFrom ==
    /\ pc = "idle"
    /\ \E call \in UniformFromCalls : Step(call)
WeightedFrom ==
    /\ pc = "idle"
    /\ \E call \in WeightedFromCalls : Step(call)
Shuffle ==
    /\ pc = "idle"
    /\ \E call \in ShuffleCalls : Step(call)
SeedServer ==
    /\ pc = "idle"
    /\ \E call \in SeedCalls : Step(call)

\* The caller takes the result and goes on; a terminated process, or one
\* that has executed undefined behaviour, makes no further step.
Return ==
    /\ pc = "called"
    /\ Runnable(m)
    /\ pc' = "idle"
    /\ last' = Idle
    /\ m' = [m EXCEPT !.fired = {}]
    /\ UNCHANGED <<m2, last2>>

Next ==
    \/ Uniform2
    \/ Uniform3
    \/ Probability
    \/ YesNo
    \/ Uniformf
    \/ Triangularf
    \/ UniformFrom
    \/ WeightedFrom
    \/ Shuffle
    \/ SeedServer
    \/ Return

Spec == Init /\ [][Next]_vars

\* ------------------------------------------- two runs of the same program
\* Run A and run B start alike and make the same calls with the same
\* arguments; each has its own environment (the entropy its provider engine
\* is seeded with).
\* Calls that omit the generator are made only through the scalar members.
PairCalls ==
    {call \in Uniform2Calls \cup Uniform3Calls \cup ProbabilityCalls \cup YesNoCalls
              \cup UniformfCalls \cup TriangularfCalls \cup UniformFromCalls
              \cup WeightedFromCalls \cup ShuffleCalls :
        call.explicit \/ call.op \in {"uniform2", "yesNo", "uniformf"}}

\* Both runs at start: the same build, provider and seed of the caller's engine.
PairInit ==
    /\ \E fatal \in BOOLEAN, uses \in Providers, seed \in Words :
          /\ m = InitMachine(fatal, uses, seed)
          /\ m2 = InitMachine(fatal, uses, seed)
    /\ pc = "idle"
    /\ last = Idle
    /\ last2 = Idle

\* The same defined call in both runs (a call that executes undefined
\* behaviour in a run ends the comparison: nothing can be said after it).
PairCall ==
    /\ pc = "idle"
    /\ Runnable(m)
    /\ Runnable(m2)
    /\ \E call \in PairCalls :
          /\ call.traits = m.uses
          /\ \E env \in Envs(call, m), env2 \in Envs(call, m2) :
                /\ ~Invoke(call, m, env).m.ub
                /\ ~Invoke(call, m2, env2).m.ub
                /\ last' = Record(call, m, env)
                /\ m' = Invoke(call, m, env).m
                /\ last2' = Record(call, m2, env2)
                /\ m2' = Invoke(call, m2, env2).m
    /\ pc' = "called"

PairReturn ==
    /\ pc = "called"
    /\ Runnable(m)
    /\ Runnable(m2)
    /\ pc' = "idle"
    /\ last' = Idle
    /\ last2' = Idle
    /\ m' = [m EXCEPT !.fired = {}]
    /\ m2' = [m2 EXCEPT !.fired = {}]

PairNext ==
    \/ PairCall
    \/ PairReturn

PairSpec == PairInit /\ [][PairNext]_vars

\* ------------------------------------------------------------- properties
\* The call just completed is a call of `op` whose body was entered (the
\* process was not terminated while the generator argument was evaluated).
Called(op) ==
    /\ pc = "called"
    /\ last.call.op = op
    /\ ~(last.out.m.fatal /\ "server" \in last.out.m.fired)

Fired == last.out.m.fired
Size == Len(last.call.coll)

\* C1: for from <= to every value uniform(from, to) returns lies in
\* [from, to], uniform(to) being the case from = 0; both boundary values are
\* results of some engine state, and uniform(0) is always 0.
C1_UniformRange ==
    /\ Called("uniform3") =>
          /\ last.out.ret
          /\ last.call.a <= last.out.val
          /\ last.out.val <= last.call.b
          /\ \E s \in Words :
                uniform3(last.call.a, last.call.b, "user", [last.pre EXCEPT !.user = s]).val
                   = last.call.a
          /\ \E s \in Words :
                uniform3(last.call.a, last.call.b, "user", [last.pre EXCEPT !.user = s]).val
                   = last.call.b
    /\ Called("uniform2") =>
          /\ last.out.ret
          /\ 0 <= last.out.val
          /\ last.out.val <= last.call.b
          /\ (last.call.b = 0 => last.out.val = 0)
          /\ \E s \in Words :
                uniform2(last.call.b, "user", [last.pre EXCEPT !.user = s]).val = 0
          /\ \E s \in Words :
                uniform2(last.call.b, "user", [last.pre EXCEPT !.user = s]).val = last.call.b

C1_Witness ==
    /\ Called("uniform3")
    /\ last.call.a < last.call.b
    /\ last.out.ret
    /\ last.out.val = last.call.b

\* The engine the body of the last call drew from is where it was before
\* the call (a provider engine built by this call may hold any seed).
NothingDrawn ==
    /\ last.out.m.user = last.pre.user
    /\ last.pre.fast # Unbuilt => last.out.m.fast = last.pre.fast
    /\ last.pre.server # Unbuilt => last.out.m.server = last.pre.server

\* C2 (as claimed): uniformFrom returns a value exactly when the collection
\* is non-empty, that value is the element at a position in [0, size - 1]
\* and the trailing assertion does not fire; on an empty collection it fails
\* with an assertion before any value is drawn or returned.
C2_AsClaimed ==
    Called("uniformFrom") =>
       /\ last.out.ret <=> Size > 0
       /\ last.out.ret =>
             /\ last.out.offset \in 0 .. (Size - 1)
             /\ last.out.val = last.call.coll[last.out.offset + 1]
             /\ "end" \notin Fired
       /\ Size = 0 => ("empty" \in Fired /\ NothingDrawn)

\* C2 (amended): on a non-empty collection uniformFrom returns the element
\* at a position in [0, size - 1] and no assertion of its own fires.  On an
\* empty collection the emptiness assertion fires; where assertions are fatal
\* nothing is drawn or returned; where they are not, execution goes on past
\* the assertion into undefined behaviour.
C2_UniformFrom ==
    Called("uniformFrom") =>
       /\ Size > 0 =>
             /\ last.out.ret
             /\ last.out.offset \in 0 .. (Size - 1)
             /\ last.out.val = last.call.coll[last.out.offset + 1]
             /\ "empty" \notin Fired
             /\ "end" \notin Fired
             /\ ~last.out.m.ub
       /\ Size = 0 =>
             /\ "empty" \in Fired
             /\ last.pre.fatal =>
                   (~last.out.ret /\ last.out.m.halted /\ NothingDrawn /\ ~last.out.m.ub)
             /\ ~last.pre.fatal => last.out.m.ub

C2_Witness ==
    /\ Called("uniformFrom")
    /\ Size = 0
    /\ last.pre.fatal
    /\ last.call.explicit
    /\ "empty" \in Fired
    /\ ~last.out.ret

\* C3: with as many weights as elements and a positive weight among them,
\* weightedFrom returns an element whose weight is not 0; with weights
\* <<1, 0, 0>> it returns the first element.
C3_WeightedNonZero ==
    (Called("weightedFrom") /\ Len(last.call.weights) = Size
        /\ SumSeq(last.call.weights) > 0) =>
       /\ last.out.ret
       /\ last.out.offset \in 0 .. (Size - 1)
       /\ last.call.weights[last.out.offset + 1] > 0
       /\ last.out.val = last.call.coll[last.out.offset + 1]
       /\ Fired \subseteq {"server"}
       /\ (last.call.weights = <<1, 0, 0>> => last.out.val = last.call.coll[1])

C3_Witness ==
    /\ Called("weightedFrom")
    /\ last.call.weights = <<1, 0, 0>>
    /\ Size = 3
    /\ last.out.ret
    /\ last.out.val = last.call.coll[1]

\* C4 (as claimed, its first half, in a build where assertions are fatal):
\* when there are more weights than elements and the drawn index is at or
\* past the collection's size, weightedFrom fails with the assertion and
\* returns no value.
C4_AsClaimed ==
    (/\ Called("weightedFrom")
     /\ last.pre.fatal
     /\ Len(last.call.weights) > Size
     /\ last.out.offset >= Size) =>
       ("end" \in Fired /\ ~last.out.ret)

\* C5: shuffle(first, last) permutes the range in place: the array holds
\* the same multiset of elements afterwards, every position receives the
\* element of exactly one position of the range, and the positions outside
\* [first, last) keep their elements.
BagOf(seq) ==
    [x \in {seq[i] : i \in DOMAIN seq} |-> Cardinality({i \in DOMAIN seq : seq[i] = x})]

C5_ShufflePermutes ==
    Called("shuffle") =>
       LET before == last.call.coll
           after == last.out.after
           perm == last.out.perm
           inside == (last.call.a + 1) .. last.call.b
       IN  /\ last.out.ret
           /\ Len(after) = Len(before)
           /\ BagOf(after) = BagOf(before)
           /\ DOMAIN perm = DOMAIN before
           /\ \A i \in DOMAIN before : after[i] = before[perm[i]]
           /\ \A i \in inside : perm[i] \in inside
           /\ \A i, j \in DOMAIN before : perm[i] = perm[j] => i = j
           /\ \A i \in DOMAIN before \ inside : perm[i] = i /\ after[i] = before[i]

C5_Witness ==
    /\ Called("shuffle")
    /\ Len(last.call.coll) = 3
    /\ last.call.a = 1
    /\ last.call.b = 3
    /\ last.out.after # last.call.coll

\* The last call invoked ServerRandomTraits::generator().
ServerGeneratorCalled ==
    /\ pc = "called"
    /\ last.call.traits = "server"
    /\ ~last.call.explicit

\* C7 (as claimed): ServerRandomTraits::generator() fails with the assertion
\* if and only if the server stream has not been seeded beforehand, and the
\* fallback engine is built and returned only where the assertion is not fatal.
C7_AsClaimed ==
    ServerGeneratorCalled =>
       /\ "server" \in Fired <=> ~last.pre.seeded
       /\ last.out.m.server # Unbuilt => ~last.pre.fatal

\* C7 (amended): every call of ServerRandomTraits::generator() fails with the
\* assertion, seeded beforehand or not; where the assertion is fatal the
\* process ends with no engine built and nothing returned, where it is not
\* fatal the engine is there (built on the first call) and is returned.
C7_ServerAlwaysAsserts ==
    ServerGeneratorCalled =>
       /\ "server" \in Fired
       /\ last.pre.fatal =>
             (last.out.m.halted /\ ~last.out.ret /\ last.out.m.server = Unbuilt)
       /\ ~last.pre.fatal => last.out.m.server # Unbuilt

C7_Witness ==
    /\ ServerGeneratorCalled
    /\ last.pre.seeded
    /\ last.call.op = "uniform2"
    /\ "server" \in Fired
    /\ last.out.ret

\* C8 (as claimed): every value uniformf() returns lies in (0, 1]: it is
\* never 0 (and may be 1).  Values are numerators over GenMod.
C8_AsClaimed ==
    Called("uniformf") => (0 < last.out.val /\ last.out.val <= GenMod)

\* C9: a call draws from one engine only.  With the generator supplied, the
\* provider's generator() is not invoked: no provider engine is built or
\* advanced and no server-seed assertion fires.  With it omitted, the
\* provider's engine is obtained and the caller's engine is left alone.
C9_OneGenerator ==
    [][(pc = "idle" /\ pc' = "called") =>
          IF last'.call.explicit
          THEN /\ m'.fast = m.fast
               /\ m'.server = m.server
               /\ "server" \notin m'.fired
          ELSE /\ m'.user = m.user
               /\ (m'.halted \/ GenState(m', last'.call.traits) # Unbuilt)
               /\ last'.call.traits = "fast" => m'.server = m.server
               /\ last'.call.traits = "server" => m'.fast = m.fast]_vars

C9_Witness ==
    /\ pc = "called"
    /\ last.call.explicit
    /\ last.call.traits = "server"
    /\ last.call.op = "shuffle"
    /\ last.pre.fatal
    /\ last.out.ret
    /\ last.out.m.user # last.pre.user
    /\ last.out.m.server = Unbuilt
    /\ Fired = {}

\* C10: for a <= c <= b with a < b, triangularf takes the lower branch
\* a + sqrt(u (b-a) (c-a)) exactly when u < (c-a)/(b-a) and the upper branch
\* b - sqrt((1-u) (b-a) (b-c)) otherwise, and the result lies in [a, b]
\* (u = last.out.u / GenMod, results in units of 1 / Scale).
C10_Triangular ==
    (Called("triangularf") /\ last.call.a < last.call.b) =>
       LET a == last.call.a
           b == last.call.b
           c == last.call.c
           u == last.out.u
       IN  /\ last.out.ret
           /\ u \in Words
           /\ last.out.branch = "lower" <=> u * (b - a) < (c - a) * GenMod
           /\ last.out.branch = "upper" <=> ~(u * (b - a) < (c - a) * GenMod)
           /\ a * Scale <= last.out.val
           /\ last.out.val <= b * Scale
           /\ last.out.branch = "lower" =>
                 (last.out.val - a * Scale) * (last.out.val - a * Scale) * GenMod
                    <= u * (b - a) * (c - a) * Scale * Scale
           /\ last.out.branch = "upper" =>
                 (b * Scale - last.out.val) * (b * Scale - last.out.val) * GenMod
                    <= (GenMod - u) * (b - a) * (b - c) * Scale * Scale

C10_Witness ==
    /\ Called("triangularf")
    /\ last.call.a < last.call.c
    /\ last.call.c < last.call.b
    /\ last.out.branch = "lower"
    /\ last.out.val > last.call.a * Scale

\* C6: two runs that start with the caller's engine in the same state and
\* make the same calls with the same arguments get the same results from
\* every call the engine is supplied to, and their engines stay in step,
\* whatever entropy the provider engines were seeded with (`last2`, `m2` are
\* the second run).
C6_Deterministic ==
    /\ m.user = m2.user
    /\ m.halted = m2.halted
    /\ (pc = "called" /\ last.call.explicit) =>
          /\ last.out.ret = last2.out.ret
          /\ last.out.val = last2.out.val
          /\ last.out.after = last2.out.after
          /\ last.out.offset = last2.out.offset
          /\ last.out.branch = last2.out.branch
          /\ last.out.m.fired = last2.out.m.fired

C6_Witness ==
    /\ pc = "called"
    /\ last.call.explicit
    /\ last.call.op = "shuffle"
    /\ last.out.after # last.call.coll
    /\ last.out.after = last2.out.after
    /\ m.fast # Unbuilt
    /\ m.fast # m2.fast

====
